---- MODULE Spec2Model ----
(***************************************************************************)
(* Model of src/estrazione_web.py: the extraction of the "Project and      *)
(* member breakdown" table of a Toggl PDF report from positioned words.    *)
(*                                                                         *)
(* A text is a sequence of one-character strings.  A word (token) is a     *)
(* record [text, x0, top]; a page is the sequence of words that            *)
(* extract_words_page returns for it, in extraction order; a document is   *)
(* a sequence of pages.                                                    *)
(* A coordinate is an integer number of fiftieths of a layout unit         *)
(* (100.2 is 5010).  Words sit on multiples of a tenth of a unit, so the   *)
(* 0.80 quantile of line 50, interpolated in fifths between two            *)
(* neighbours, is again a whole number of fiftieths and every comparison   *)
(* of the source is exact integer arithmetic.                              *)
(***************************************************************************)
EXTENDS Integers, Sequences, FiniteSets, TLC

VARIABLES
    doc,        \* the pages of the uploaded PDF (input, never changed)
    pc,         \* position in process_pdf
    n,          \* len(pdf.pages), line 160
    phase,      \* which collect_rows call is running: "primary" | "fallback"
    i,          \* loop variable of collect_rows, line 151
    rows,       \* local list of collect_rows, line 149
    all_rows,   \* line 163 / 166
    df,         \* the returned table, lines 168-172
    scanned,    \* history: the pages collect_rows visited, in order
    left,       \* input of classify_left (specification SpecClassify)
    cls         \* result of classify_left (specification SpecClassify)

vars == <<doc, pc, n, phase, i, rows, all_rows, df, scanned, left, cls>>

----------------------------------------------------------------------------
(* Bounds of the model *)

\* longest document, in pages
MaxPages == 3

\* most words in the left band of one row
MaxLeftWords == 3

----------------------------------------------------------------------------
(* Python values and string methods *)

None == <<"None">>

Digits == {"0", "1", "2", "3", "4", "5", "6", "7", "8", "9"}

UpperCase == <<"A","B","C","D","E","F","G","H","I","J","K","L","M",
               "N","O","P","Q","R","S","T","U","V","W","X","Y","Z">>

LowerCase == <<"a","b","c","d","e","f","g","h","i","j","k","l","m",
               "n","o","p","q","r","s","t","u","v","w","x","y","z">>

IsDigit(c) == c \in Digits

\* \s of the regexes and the whitespace of str.strip
IsSpace(c) == c \in {" ", "\t", "\n"}

LowerChar(c) ==
    IF \E k \in 1..26 : UpperCase[k] = c
    THEN LowerCase[CHOOSE k \in 1..26 : UpperCase[k] = c]
    ELSE c

str_lower(s) == [k \in 1..Len(s) |-> LowerChar(s[k])]

str_strip(s) ==
    LET keep == {k \in 1..Len(s) : ~IsSpace(s[k])}
    IN  IF keep = {} THEN <<>>
        ELSE LET a == CHOOSE k \in keep : \A m \in keep : k <= m
                 b == CHOOSE k \in keep : \A m \in keep : k >= m
             IN  SubSeq(s, a, b)

str_startswith(s, p) == Len(s) >= Len(p) /\ SubSeq(s, 1, Len(p)) = p

\* p in s
str_contains(s, p) ==
    \E k \in 1..(Len(s) - Len(p) + 1) : SubSeq(s, k, k + Len(p) - 1) = p

\* " ".join(texts)
RECURSIVE str_join(_)
str_join(texts) ==
    IF texts = <<>> THEN <<>>
    ELSE IF Len(texts) = 1 THEN texts[1]
    ELSE texts[1] \o <<" ">> \o str_join(Tail(texts))

\* a replace that leaves the decimal comma in place
ReplaceCommaKept(s) == s

\* s.replace(",", ".")
ReplaceComma(s) == [k \in 1..Len(s) |-> IF s[k] = "," THEN "." ELSE s[k]]

----------------------------------------------------------------------------
(* The regular expressions, lines 13-16, as matchers of a whole text *)

\* DUR_RE = ^\d{1,2}:\d{2}:\d{2}$
DUR_RE(s) ==
    \E h \in 1..2 :
        /\ Len(s) = h + 6
        /\ \A k \in 1..h : IsDigit(s[k])
        /\ s[h+1] = ":" /\ IsDigit(s[h+2]) /\ IsDigit(s[h+3])
        /\ s[h+4] = ":" /\ IsDigit(s[h+5]) /\ IsDigit(s[h+6])

\* PCT_RE = ^\d{1,3}(?:[.,]\d+)?%$
PCT_RE(s) ==
    \E h \in 1..3 :
        /\ Len(s) >= h + 1
        /\ \A k \in 1..h : IsDigit(s[k])
        /\ s[Len(s)] = "%"
        /\ \/ Len(s) = h + 1
           \/ /\ Len(s) >= h + 3
              /\ s[h+1] \in {".", ","}
              /\ \A k \in (h+2)..(Len(s)-1) : IsDigit(s[k])

Currency == {"$", "€", "£"}

AmtMiddle(s) == \A k \in 1..Len(s) : IsDigit(s[k]) \/ IsSpace(s[k]) \/ s[k] \in {".", ","}

\* AMT_RE = ^(-|[€$£]?\s?\d[\d\.\s,]*\d|\d[\d\.\s,]*[€$£])$
AMT_RE(s) ==
    \/ s = <<"-">>
    \/ \E a \in 0..1, b \in 0..1 :
          /\ Len(s) >= a + b + 2
          /\ a = 1 => s[1] \in Currency
          /\ b = 1 => IsSpace(s[a+1])
          /\ IsDigit(s[a+b+1]) /\ IsDigit(s[Len(s)])
          /\ AmtMiddle(SubSeq(s, a+b+2, Len(s)-1))
    \/ /\ Len(s) >= 2
       /\ IsDigit(s[1]) /\ s[Len(s)] \in Currency
       /\ AmtMiddle(SubSeq(s, 2, Len(s)-1))

----------------------------------------------------------------------------
(* classify_left, lines 60-71 *)

\* Where \(\d+\)\s*$ matches in s: the index of its "(", or 0 when it does
\* not match.
CountSuffixAt(s) ==
    LET keep == {k \in 1..Len(s) : ~IsSpace(s[k])}
    IN  IF keep = {} THEN 0
        ELSE LET e == CHOOSE k \in keep : \A m \in keep : k >= m
                 open == {k \in 1..(e-2) :
                             /\ s[k] = "("
                             /\ \A m \in (k+1)..(e-1) : IsDigit(s[m])}
             IN  IF s[e] = ")" /\ open # {}
                 THEN CHOOSE k \in open : TRUE
                 ELSE 0

\* re.sub(r"\s*\(\d+\)\s*$", "", s) for an s the pattern matches at `at`:
\* the match starts at the first of the blanks that precede the "(".
StripCountSuffix(s, at) ==
    LET blanksFrom == {k \in 1..at : \A m \in k..(at-1) : IsSpace(s[m])}
        w == CHOOSE k \in blanksFrom : \A m \in blanksFrom : k <= m
    IN  SubSeq(s, 1, w - 1)

\* classify_left with the count-suffix rule tried before the "total" and
\* "without" rules
classify_left_suffix_first(s) ==
    IF s = <<>> THEN <<None, None>>
    ELSE IF CountSuffixAt(s) # 0
         THEN <<str_strip(StripCountSuffix(s, CountSuffixAt(s))), None>>
    ELSE LET lo == str_strip(str_lower(s))
         IN  IF str_startswith(lo, <<"t","o","t","a","l">>)
             THEN <<<<"T","O","T","A","L">>, None>>
             ELSE IF str_startswith(lo, <<"w","i","t","h","o","u","t">>)
             THEN <<<<"W","i","t","h","o","u","t"," ","p","r","o","j","e","c","t">>, None>>
             ELSE <<None, s>>

\* returns <<project, member>>
classify_left(s) ==
    IF s = <<>> THEN <<None, None>>
    ELSE LET lo == str_strip(str_lower(s))
         IN  IF str_startswith(lo, <<"t","o","t","a","l">>)
             THEN <<<<"T","O","T","A","L">>, None>>
             ELSE IF str_startswith(lo, <<"w","i","t","h","o","u","t">>)
             THEN <<<<"W","i","t","h","o","u","t"," ","p","r","o","j","e","c","t">>, None>>
             ELSE IF CountSuffixAt(s) # 0
             THEN <<str_strip(StripCountSuffix(s, CountSuffixAt(s))), None>>
             ELSE <<None, s>>

----------------------------------------------------------------------------
(* Geometry constants of the source, in fiftieths of a layout unit *)

\* y_tol=2.5 of the calls of parse_page
Y_TOL == 125

\* the 10.0 of LEFT_MAX, AMT_MIN, AMT_MAX
COL_INSET == 500

\* the 4.0 of find_client_x_min
CLIENT_INSET == 200

\* the 5.0 added to the right edge of the client band
CLIENT_PAD == 250

----------------------------------------------------------------------------
(* DataFrame helpers.  A selection of a page's words is the set of their   *)
(* positions in the page; sort_values yields the orders of a selection     *)
(* that ascend in the key, every one of them where keys are equal (the     *)
(* default sort of sort_values is not stable).                             *)

Min(S) == CHOOSE x \in S : \A y \in S : x <= y
Max(S) == CHOOSE x \in S : \A y \in S : x >= y

\* Series.between(lo, hi), inclusive
between(v, lo, hi) == lo <= v /\ v <= hi

\* sort_values("top") that leaves the selection in any order
RECURSIVE sort_values_top_unsorted(_, _)
sort_values_top_unsorted(words, S) ==
    IF S = {} THEN {<<>>}
    ELSE UNION {{<<k>> \o rest : rest \in sort_values_top_unsorted(words, S \ {k})} : k \in S}

RECURSIVE sort_values_top(_, _)
sort_values_top(words, S) ==
    IF S = {} THEN {<<>>}
    ELSE LET first == {k \in S : \A m \in S : words[k].top <= words[m].top}
         IN  UNION {{<<k>> \o rest : rest \in sort_values_top(words, S \ {k})} : k \in first}

RECURSIVE sort_values_x0(_, _)
sort_values_x0(words, S) ==
    IF S = {} THEN {<<>>}
    ELSE LET first == {k \in S : \A m \in S : words[k].x0 <= words[m].x0}
         IN  UNION {{<<k>> \o rest : rest \in sort_values_x0(words, S \ {k})} : k \in first}

\* the texts of the words at the positions `order`, in that order
TextsOf(words, order) == [k \in 1..Len(order) |-> words[order[k]].text]

\* words["x0"].quantile(0.80), linear interpolation, for a non-empty page
quantile80(words) ==
    LET cnt == Len(words)
        h == (cnt - 1) * 4
        lo == h \div 5
        r == h % 5
        \* the value at 0-based rank k of the ascending x0 column
        v(k) == CHOOSE x \in {words[m].x0 : m \in 1..cnt} :
                    /\ Cardinality({m \in 1..cnt : words[m].x0 < x}) <= k
                    /\ k < Cardinality({m \in 1..cnt : words[m].x0 <= x})
    IN  IF r = 0 THEN v(lo) ELSE v(lo) + (r * (v(lo + 1) - v(lo))) \div 5

----------------------------------------------------------------------------
(* is_breakdown_page, lines 29-36 *)

is_breakdown_page(words) ==
    IF words = <<>> THEN FALSE
    ELSE LET text == str_join([k \in 1..Len(words) |-> str_lower(words[k].text)])
         IN  \/ str_contains(text, <<"p","r","o","j","e","c","t"," ","a","n","d"," ",
                                     "m","e","m","b","e","r"," ",
                                     "b","r","e","a","k","d","o","w","n">>)
             \/ /\ str_contains(text, <<"p","r","o","j","e","c","t">>)
                /\ str_contains(text, <<"m","e","m","b","e","r">>)
                /\ str_contains(text, <<"d","u","r","a","t","i","o","n">>)

----------------------------------------------------------------------------
(* left_text_near, find_client_x_min, text_in_band: lines 38-58.  Each     *)
(* text operator yields the set of texts the call can return.              *)

left_text_near(words, top, x_limit, y_tol) ==
    LET lim == x_limit
        local == {k \in 1..Len(words) :
                     /\ between(words[k].top, top - y_tol, top + y_tol)
                     /\ words[k].x0 < lim}
    IN  {str_strip(str_join(TextsOf(words, o))) : o \in sort_values_x0(words, local)}

\* Optional[float] as a set: {} is None, {x} is the float x
find_client_x_min(words) ==
    LET mask == {k \in 1..Len(words) :
                    str_lower(str_strip(words[k].text)) = <<"c","l","i","e","n","t">>}
    IN  IF mask # {} THEN {Min({words[k].x0 : k \in mask}) - CLIENT_INSET}
        ELSE IF words # <<>> THEN {quantile80(words)}
        ELSE {}

text_in_band(words, top, xmin, xmax, y_tol) ==
    LET lo == xmin
        hi == xmax
        local == {k \in 1..Len(words) :
                     /\ between(words[k].top, top - y_tol, top + y_tol)
                     /\ words[k].x0 >= lo /\ words[k].x0 <= hi}
    IN  {str_strip(str_join(TextsOf(words, o))) : o \in sort_values_x0(words, local)}

----------------------------------------------------------------------------
(* parse_page, lines 73-139 *)

DurAnchors(words) == {k \in 1..Len(words) : DUR_RE(words[k].text)}
PctAnchors(words) == {k \in 1..Len(words) : PCT_RE(words[k].text)}

\* lines 90-92; in line 92 both None and 0.0 give way to the quantile
duration_x_min(words) == Min({words[k].x0 : k \in DurAnchors(words)})
pct_x_min(words) == Min({words[k].x0 : k \in PctAnchors(words)})
client_x_min(words) ==
    LET c == find_client_x_min(words)
    IN  IF c = {} \/ c = {0} THEN quantile80(words) ELSE CHOOSE x \in c : TRUE

\* line 95; AMT_MIN and AMT_MAX of lines 96-97 are pmin + COL_INSET and
\* cmin - COL_INSET in AmountTexts
LEFT_MAX(words) == Min({duration_x_min(words), pct_x_min(words)}) - COL_INSET

\* lines 110-122: the amount texts of the row at `top`
AmountTexts(words, top) ==
    LET pmin == pct_x_min(words)
        cmin == client_x_min(words)
        cand == {k \in 1..Len(words) :
                    /\ between(words[k].top, top - Y_TOL, top + Y_TOL)
                    /\ words[k].x0 > pmin
                    /\ words[k].x0 < cmin}
        FirstAmount(o) ==
            LET hits == {k \in 1..Len(o) : AMT_RE(str_strip(words[o[k]].text))}
            IN  IF hits = {} THEN <<"-">> ELSE str_strip(words[o[Min(hits)]].text)
    IN  UNION {IF raw # <<>> THEN {raw}
               ELSE {FirstAmount(o) : o \in sort_values_x0(words, cand)}
               : raw \in text_in_band(words, top, pmin + COL_INSET, cmin - COL_INSET, Y_TOL)}

\* lines 124-125: the client texts of the row at `top`
ClientTexts(words, top) ==
    LET cmin == client_x_min(words)
        xmax == Max({words[k].x0 : k \in 1..Len(words)}) + CLIENT_PAD
    IN  text_in_band(words, top, cmin, xmax, Y_TOL)

\* One pass of the loop body, lines 102-138, for the duration anchor at
\* position d and the percentage anchor at position p: the sequences of
\* rows (none or one) it can append.  The field src is a history annotation
\* that names the words the row was made from; the program keeps no such
\* field.
RowOutcomes(words, d, p) ==
    LET top == words[d].top
        lmax == LEFT_MAX(words)
    IN  UNION {
          LET c == classify_left(l)
          IN  IF c[1] = None /\ c[2] = None
              THEN {<<>>}
              ELSE {<<[PROJECT |-> c[1],
                       MEMBER |-> c[2],
                       DURATION |-> words[d].text,
                       DURATION_PCT |-> ReplaceComma(words[p].text),
                       AMOUNT |-> a,
                       CLIENT |-> cl,
                       src |-> [page |-> -1, d |-> d, p |-> p, left |-> l]]>>
                    : a \in AmountTexts(words, top), cl \in ClientTexts(words, top)}
          : l \in left_text_near(words, top, lmax, Y_TOL)}

\* a pairing that gives every duration anchor the percentage anchor whose
\* top is nearest to its own
PairAnchorsNearest(words, dur, pct) ==
    LET dist(d, p) == IF words[d].top >= words[p].top
                      THEN words[d].top - words[p].top
                      ELSE words[p].top - words[d].top
        nearest(d) == CHOOSE k \in 1..Len(pct) :
                         \A m \in 1..Len(pct) : dist(d, pct[k]) <= dist(d, pct[m])
    IN  [k \in 1..Len(dur) |-> <<dur[k], pct[nearest(dur[k])]>>]

\* line 101: zip(dur.iterrows(), pct.iterrows()), as the sequence of pairs
\* of positions in words; dur and pct are the sorted selections
PairAnchors(words, dur, pct) ==
    [k \in 1..Min({Len(dur), Len(pct)}) |-> <<dur[k], pct[k]>>]

\* the row lists the loop of line 101 can build from the pairs k..
RECURSIVE LoopRows(_, _, _)
LoopRows(words, pairs, k) ==
    IF k > Len(pairs) THEN {<<>>}
    ELSE {head \o rest : head \in RowOutcomes(words, pairs[k][1], pairs[k][2]),
                         rest \in LoopRows(words, pairs, k + 1)}

\* the row lists parse_page can return for a page with these words
parse_page(words) ==
    IF words = <<>> THEN {<<>>}
    ELSE IF DurAnchors(words) = {} \/ PctAnchors(words) = {} THEN {<<>>}
    ELSE UNION {LoopRows(words, PairAnchors(words, dur, pct), 1)
                : dur \in sort_values_top(words, DurAnchors(words)),
                  pct \in sort_values_top(words, PctAnchors(words))}

----------------------------------------------------------------------------
(* The documents the model is run on.  Word positions are written in       *)
(* tenths of a layout unit.                                                *)

W(t, x, y) == [text |-> t, x0 |-> 5 * x, top |-> 5 * y]

\* a page without text
P_empty == <<>>

\* a cover page: no table title, no anchors
P_cover ==
    <<W(<<"S","u","m","m","a","r","y">>, 500, 400),
      W(<<"r","e","p","o","r","t">>, 1200, 400)>>

\* a summary page that is no breakdown page (no "member") and has one anchored row
P_summary ==
    <<W(<<"P","r","o","j","e","c","t">>, 500, 400),
      W(<<"D","u","r","a","t","i","o","n">>, 3000, 400),
      W(<<"W","e","b">>, 500, 1000),
      W(<<"(","4",")">>, 900, 1000),
      W(<<"1","0",":","0","0",":","0","0">>, 3000, 1000),
      W(<<"6","0","%">>, 3700, 1000)>>

\* a breakdown page: a project row whose anchors sit 0.2 off the label, and a member row with an amount
P_std ==
    <<W(<<"P","r","o","j","e","c","t">>, 500, 400),
      W(<<"a","n","d">>, 1000, 400),
      W(<<"m","e","m","b","e","r">>, 1300, 400),
      W(<<"b","r","e","a","k","d","o","w","n">>, 1900, 400),
      W(<<"D","U","R","A","T","I","O","N">>, 3000, 700),
      W(<<"C","L","I","E","N","T">>, 5200, 700),
      W(<<"M","a","r","k","e","t","i","n","g">>, 500, 1000),
      W(<<"(","2",")">>, 1300, 1000),
      W(<<"0","2",":","1","5",":","0","0">>, 3000, 1002),
      W(<<"1","8",",","4","0","%">>, 3700, 998),
      W(<<"A","c","m","e">>, 5200, 1000),
      W(<<"C","o","r","p">>, 5600, 1000),
      W(<<"A","n","n">>, 500, 1300),
      W(<<"0","1",":","0","0",":","0","0">>, 3000, 1300),
      W(<<"8",",","2","%">>, 3700, 1300),
      W(<<"$","1","2",".","5","0">>, 4400, 1300)>>

\* a breakdown page recognised by its three words, without a CLIENT header: a total row and a without-project row
P_total ==
    <<W(<<"P","r","o","j","e","c","t">>, 500, 700),
      W(<<"M","e","m","b","e","r">>, 1100, 700),
      W(<<"D","u","r","a","t","i","o","n">>, 3000, 700),
      W(<<"T","o","t","a","l">>, 500, 1000),
      W(<<"(","3",")">>, 1100, 1000),
      W(<<"1","2",":","3","0",":","0","0">>, 3000, 1000),
      W(<<"1","0","0","%">>, 3700, 1000),
      W(<<"w","i","t","h","o","u","t">>, 500, 1300),
      W(<<"p","r","o","j","e","c","t">>, 1100, 1300),
      W(<<"1",":","0","0",":","0","0">>, 3000, 1300),
      W(<<"8",".","0","%">>, 3700, 1300),
      W(<<"G","l","o","b","e","x">>, 5200, 1300)>>

\* a breakdown page with a stray percentage above the first row
P_stray ==
    <<W(<<"P","r","o","j","e","c","t">>, 500, 400),
      W(<<"a","n","d">>, 1000, 400),
      W(<<"m","e","m","b","e","r">>, 1300, 400),
      W(<<"b","r","e","a","k","d","o","w","n">>, 1900, 400),
      W(<<"1","0","0","%">>, 3700, 700),
      W(<<"W","e","b">>, 500, 1000),
      W(<<"(","4",")">>, 900, 1000),
      W(<<"1","0",":","0","0",":","0","0">>, 3000, 1000),
      W(<<"6","0","%">>, 3700, 1000),
      W(<<"O","p","s">>, 500, 1300),
      W(<<"(","1","2",")">>, 900, 1300),
      W(<<"5",":","0","0",":","0","0">>, 3000, 1300),
      W(<<"4","0",".","5","%">>, 3700, 1300)>>

\* a breakdown page with a duration and no percentage
P_durOnly ==
    <<W(<<"P","r","o","j","e","c","t">>, 500, 400),
      W(<<"a","n","d">>, 1000, 400),
      W(<<"m","e","m","b","e","r">>, 1300, 400),
      W(<<"b","r","e","a","k","d","o","w","n">>, 1900, 400),
      W(<<"W","e","b">>, 500, 1000),
      W(<<"(","4",")">>, 900, 1000),
      W(<<"1","0",":","0","0",":","0","0">>, 3000, 1000)>>

\* a breakdown page with a percentage and no duration
P_pctOnly ==
    <<W(<<"P","r","o","j","e","c","t">>, 500, 400),
      W(<<"a","n","d">>, 1000, 400),
      W(<<"m","e","m","b","e","r">>, 1300, 400),
      W(<<"b","r","e","a","k","d","o","w","n">>, 1900, 400),
      W(<<"W","e","b">>, 500, 1000),
      W(<<"(","4",")">>, 900, 1000),
      W(<<"6","0","%">>, 3700, 1000)>>

\* a breakdown page: a row whose label is a lone count and whose amount dash sits in the client band, a row without label, and a member row with a dash before the client name
P_dash ==
    <<W(<<"P","r","o","j","e","c","t">>, 500, 400),
      W(<<"a","n","d">>, 1000, 400),
      W(<<"m","e","m","b","e","r">>, 1300, 400),
      W(<<"b","r","e","a","k","d","o","w","n">>, 1900, 400),
      W(<<"D","U","R","A","T","I","O","N">>, 3000, 700),
      W(<<"C","L","I","E","N","T">>, 5200, 700),
      W(<<"(","4",")">>, 500, 1000),
      W(<<"0","3",":","0","0",":","0","0">>, 3000, 1000),
      W(<<"2","5","%">>, 3700, 1000),
      W(<<"-">>, 5170, 1000),
      W(<<"0","0",":","3","0",":","0","0">>, 3000, 1300),
      W(<<"5","%">>, 3700, 1300),
      W(<<"I","n","i","t","e","c","h">>, 5200, 1300),
      W(<<"B","o","b">>, 500, 1600),
      W(<<"0",":","1","0",":","0","0">>, 3000, 1600),
      W(<<"1",",","5","%">>, 3700, 1600),
      W(<<"-">>, 5170, 1600),
      W(<<"A","c","m","e">>, 5300, 1600)>>

\* a breakdown page with two durations and two percentages on one line
P_tie ==
    <<W(<<"P","r","o","j","e","c","t">>, 500, 400),
      W(<<"a","n","d">>, 1000, 400),
      W(<<"m","e","m","b","e","r">>, 1300, 400),
      W(<<"b","r","e","a","k","d","o","w","n">>, 1900, 400),
      W(<<"A">>, 500, 1000),
      W(<<"(","1",")">>, 700, 1000),
      W(<<"0","1",":","0","0",":","0","0">>, 3000, 1000),
      W(<<"0","2",":","0","0",":","0","0">>, 3300, 1000),
      W(<<"1","0","%">>, 3700, 1000),
      W(<<"2","0",",","5","%">>, 4000, 1000)>>

Pages == {P_empty, P_cover, P_summary, P_std, P_total, P_stray, P_durOnly, P_pctOnly, P_dash, P_tie}

Documents == UNION {[1..k -> Pages] : k \in 0..MaxPages}

----------------------------------------------------------------------------
(* process_pdf, lines 143-172 *)

\* the body of the loop of collect_rows without the test of line 154
ScanPageNoSkip(words) == parse_page(words)

\* lines 152-156: the row lists one page can add to rows
ScanPage(words) ==
    IF ~is_breakdown_page(words) THEN {<<>>} ELSE parse_page(words)

\* ScanPage tabulated over the pages of the model
ScanPageOf == [words \in Pages |-> ScanPage(words)]

\* the history annotation of the rows of page j
Annotate(res, j) == [k \in 1..Len(res) |-> [res[k] EXCEPT !.src.page = j]]

Init ==
    /\ doc \in Documents
    /\ pc = "open"
    /\ n = 0
    /\ phase = "none"
    /\ i = 0
    /\ rows = <<>>
    /\ all_rows = <<>>
    /\ df = <<>>
    /\ scanned = <<>>
    /\ left = <<>>
    /\ cls = <<None, None>>

\* lines 159-163: count the pages; start collect_rows(range(1, n)) if n > 1
Open ==
    /\ pc = "open"
    /\ n' = Len(doc)
    /\ IF Len(doc) > 1
       THEN /\ phase' = "primary" /\ i' = 1 /\ rows' = <<>> /\ pc' = "collect"
            /\ UNCHANGED all_rows
       ELSE /\ all_rows' = <<>> /\ pc' = "check"
            /\ UNCHANGED <<phase, i, rows>>
    /\ UNCHANGED <<doc, df, scanned, left, cls>>

\* a loop that ends at the first page that adds no row
CollectStepStopsOnEmpty ==
    /\ pc = "collect"
    /\ i < n
    /\ \E res \in ScanPageOf[doc[i + 1]] :
          /\ rows' = rows \o Annotate(res, i)
          /\ scanned' = Append(scanned, [phase |-> phase, page |-> i, count |-> Len(res)])
          /\ i' = IF res = <<>> THEN n ELSE i + 1
    /\ UNCHANGED <<doc, pc, n, phase, all_rows, df, left, cls>>

\* lines 151-156: one iteration of the loop of collect_rows, on page i
CollectStep ==
    /\ pc = "collect"
    /\ i < n
    /\ \E res \in ScanPageOf[doc[i + 1]] :
          /\ rows' = rows \o Annotate(res, i)
          /\ scanned' = Append(scanned, [phase |-> phase, page |-> i, count |-> Len(res)])
    /\ i' = i + 1
    /\ UNCHANGED <<doc, pc, n, phase, all_rows, df, left, cls>>

\* line 157 and the assignment of line 163 or 166
CollectReturn ==
    /\ pc = "collect"
    /\ i >= n
    /\ all_rows' = rows
    /\ pc' = IF phase = "primary" THEN "check" ELSE "frame"
    /\ UNCHANGED <<doc, n, phase, i, rows, df, scanned, left, cls>>

\* a fallback that runs whatever the primary scan found
CheckAlwaysFallback ==
    /\ pc = "check"
    /\ phase' = "fallback" /\ i' = 0 /\ rows' = <<>> /\ pc' = "collect"
    /\ UNCHANGED <<doc, n, all_rows, df, scanned, left, cls>>

\* lines 165-166: start collect_rows(range(0, n)) if all_rows is empty
Check ==
    /\ pc = "check"
    /\ IF all_rows = <<>>
       THEN phase' = "fallback" /\ i' = 0 /\ rows' = <<>> /\ pc' = "collect"
       ELSE pc' = "frame" /\ UNCHANGED <<phase, i, rows>>
    /\ UNCHANGED <<doc, n, all_rows, df, scanned, left, cls>>

IsProjectRow(r) == r.MEMBER = None

\* a table that keeps the project, total and without-project rows only
FrameDropsMembers ==
    /\ pc = "frame"
    /\ df' = SelectSeq([k \in 1..Len(all_rows) |->
                           [all_rows[k] EXCEPT !.DURATION_PCT = ReplaceComma(@)]],
                       IsProjectRow)
    /\ pc' = "done"
    /\ UNCHANGED <<doc, n, phase, i, rows, all_rows, scanned, left, cls>>

\* lines 168-172: build the table and normalise its percentage column
Frame ==
    /\ pc = "frame"
    /\ df' = [k \in 1..Len(all_rows) |->
                 [all_rows[k] EXCEPT !.DURATION_PCT = ReplaceComma(@)]]
    /\ pc' = "done"
    /\ UNCHANGED <<doc, n, phase, i, rows, all_rows, scanned, left, cls>>

Next == Open \/ CollectStep \/ CollectReturn \/ Check \/ Frame

Spec == Init /\ [][Next]_vars

----------------------------------------------------------------------------
(* classify_left on its own: the left texts left_text_near can hand it are *)
(* the words of a band joined by single blanks.                            *)

LeftWords == {<<"T","o","t","a","l">>,
              <<"T","O","T","A","L">>,
              <<"t","o","t","a","l","s">>,
              <<"S","u","b","t","o","t","a","l">>,
              <<"W","i","t","h","o","u","t">>,
              <<"w","i","t","h","o","u","t">>,
              <<"p","r","o","j","e","c","t">>,
              <<"W","e","b","s","i","t","e">>,
              <<"R","e","d","e","s","i","g","n">>,
              <<"(","4",")">>,
              <<"(","1","2",")">>,
              <<"(","4">>,
              <<"(","a",")">>,
              <<"(",")">>}

LeftTexts == {str_join(ws) : ws \in UNION {[1..k -> LeftWords] : k \in 0..MaxLeftWords}}

InitClassify ==
    /\ left \in LeftTexts
    /\ cls = <<None, None>>
    /\ pc = "classify"
    /\ doc = <<>> /\ n = 0 /\ phase = "none" /\ i = 0
    /\ rows = <<>> /\ all_rows = <<>> /\ df = <<>> /\ scanned = <<>>

\* line 105: proj, mem = classify_left(left)
Classify ==
    /\ pc = "classify"
    /\ cls' = classify_left(left)
    /\ pc' = "classified"
    /\ UNCHANGED <<doc, n, phase, i, rows, all_rows, df, scanned, left>>

NextClassify == Classify

SpecClassify == InitClassify /\ [][NextClassify]_vars

----------------------------------------------------------------------------
(* Definitions the properties share *)

\* the pages whose rows process_pdf returns: those of the scan that ran last
ReturnedPages == IF phase = "fallback" THEN 0..(n - 1) ELSE 1..(n - 1)

\* the rows of the table t that were made from page j
RowsOfPage(t, j) ==
    LET FromPage(r) == r.src.page = j
    IN  SelectSeq(t, FromPage)

\* the row lists page j yields when scanned on its own
PageResults(j) == {Annotate(res, j) : res \in ScanPageOf[doc[j + 1]]}

\* the pages one collect_rows call visited, in the order of the visits
PhasePages(ph) ==
    LET InPhase(e) == e.phase = ph
        s == SelectSeq(scanned, InPhase)
    IN  [k \in 1..Len(s) |-> s[k].page]

\* the sequence a, a+1, ..., b
Upto(a, b) == [k \in 1..(b - a + 1) |-> a + k - 1]

\* the primary scan found a row
PrimaryFound == \E k \in 1..Len(scanned) : scanned[k].phase = "primary" /\ scanned[k].count > 0

\* s ends in a parenthesized integer
EndsInCount(s) ==
    \E a \in 1..Len(s) :
        /\ s[a] = "(" /\ Len(s) >= a + 2 /\ s[Len(s)] = ")"
        /\ \A m \in (a + 1)..(Len(s) - 1) : IsDigit(s[m])

\* s without its parenthesized integer, trimmed
LabelBeforeCount(s) ==
    LET a == CHOOSE a \in 1..Len(s) :
                 /\ s[a] = "(" /\ Len(s) >= a + 2 /\ s[Len(s)] = ")"
                 /\ \A m \in (a + 1)..(Len(s) - 1) : IsDigit(s[m])
    IN  str_strip(SubSeq(s, 1, a - 1))

\* the row kind of a left text, by the rules of the classifier in their order
KindOf(s) ==
    IF s = <<>> THEN "Empty"
    ELSE IF str_startswith(str_strip(str_lower(s)), <<"t","o","t","a","l">>) THEN "Total"
    ELSE IF str_startswith(str_strip(str_lower(s)), <<"w","i","t","h","o","u","t">>)
         THEN "WithoutProject"
    ELSE IF EndsInCount(s) THEN "Project"
    ELSE "Member"

\* the left texts the row anchored on the duration at position d can have
LeftOf(words, d) == left_text_near(words, words[d].top, LEFT_MAX(words), Y_TOL)

Dist(a, b) == IF a >= b THEN a - b ELSE b - a

\* the percentage anchors whose top is nearest to that of the duration d
NearestPct(words, d) ==
    {q \in PctAnchors(words) :
        \A m \in PctAnchors(words) :
            Dist(words[q].top, words[d].top) <= Dist(words[m].top, words[d].top)}

\* the places the word a of the selection S can take when S is sorted by top
RankRange(words, S, a) ==
    (Cardinality({m \in S : words[m].top < words[a].top}) + 1)
        .. Cardinality({m \in S : words[m].top <= words[a].top})

\* s matches ^\d{1,3}(\.\d+)?%$
DotPct(s) ==
    \E h \in 1..3 :
        /\ Len(s) >= h + 1
        /\ \A k \in 1..h : IsDigit(s[k])
        /\ s[Len(s)] = "%"
        /\ \/ Len(s) = h + 1
           \/ /\ Len(s) >= h + 3
              /\ s[h+1] = "."
              /\ \A k \in (h+2)..(Len(s)-1) : IsDigit(s[k])

\* the page has anchors of one kind only
OneSided(words) == (DurAnchors(words) = {}) # (PctAnchors(words) = {})

NoBreakdownPage == \A j \in 1..Len(doc) : ~is_breakdown_page(doc[j])

----------------------------------------------------------------------------
(* The properties *)

C3_ScanOrder ==
    pc = "done" =>
      /\ PhasePages("primary") = IF n > 1 THEN Upto(1, n - 1) ELSE <<>>
      /\ (phase = "fallback") <=> ~PrimaryFound
      /\ PhasePages("fallback") = IF phase = "fallback" THEN Upto(0, n - 1) ELSE <<>>
      /\ \A a, b \in 1..Len(scanned) :
            scanned[a].phase = "fallback" /\ scanned[b].phase = "primary" => b < a
      /\ PrimaryFound => \A k \in 1..Len(scanned) : scanned[k].page # 0
      /\ \A k \in 1..Len(scanned) :
            scanned[k].phase = (IF PrimaryFound THEN "primary" ELSE "fallback")
            => Len(RowsOfPage(df, scanned[k].page)) = scanned[k].count
      /\ \A k \in 1..Len(df) : df[k].src.page \in ReturnedPages
      /\ \A a, b \in 1..Len(df) :
            a # b => <<df[a].src.page, df[a].src.d>> # <<df[b].src.page, df[b].src.d>>

\* a document of several pages whose primary scan found nothing and whose
\* fallback scan found rows on page 0
C3_Witness ==
    /\ pc = "done" /\ n >= 2 /\ phase = "fallback"
    /\ \E k \in 1..Len(df) : df[k].src.page = 0

\* C4: for a document without a breakdown page, process_pdf runs the
\* primary and the fallback scan to their ends and returns an empty table;
\* it is never stuck before it returns.
C4_EmptyTable ==
    NoBreakdownPage =>
      /\ rows = <<>> /\ all_rows = <<>> /\ df = <<>>
      /\ pc \in {"open", "collect", "check", "frame", "done"}
      /\ pc # "done" => ENABLED Next
      /\ pc = "done" =>
            /\ PhasePages("primary") = IF n > 1 THEN Upto(1, n - 1) ELSE <<>>
            /\ PhasePages("fallback") = Upto(0, n - 1)

\* process_pdf has returned for a document of several pages, none a
\* breakdown page, one with a duration and a percentage, one without text
C4_Witness ==
    /\ pc = "done" /\ NoBreakdownPage /\ Len(doc) >= 2 /\ df = <<>>
    /\ \E j \in 1..Len(doc) : DurAnchors(doc[j]) # {} /\ PctAnchors(doc[j]) # {}
    /\ \E j \in 1..Len(doc) : doc[j] = <<>>

\* C5: for a non-empty left text, classify_left applies its rules in
\* order: "total" first (label TOTAL), then "without" (label Without
\* project), then the parenthesized integer at the end (Project, label the
\* text without it, trimmed), else Member with the raw text.
C5_ClassifyOrder ==
    pc = "classified" /\ left # <<>> =>
        CASE KindOf(left) = "Total" ->
                cls = <<<<"T","O","T","A","L">>, None>>
          [] KindOf(left) = "WithoutProject" ->
                cls = <<<<"W","i","t","h","o","u","t"," ","p","r","o","j","e","c","t">>, None>>
          [] KindOf(left) = "Project" ->
                cls = <<LabelBeforeCount(left), None>>
          [] OTHER ->
                cls = <<None, left>>

\* a text that starts with "total" and ends in a count has been classified
C5_Witness ==
    /\ pc = "classified"
    /\ str_startswith(str_lower(left), <<"t","o","t","a","l">>) /\ EndsInCount(left)
    /\ cls[1] = <<"T","O","T","A","L">>

\* C6: the DURATION_% of every row of the returned table matches
\* ^\d{1,3}(\.\d+)?%$, whatever separator the percentage word used.
C6_DotPercent ==
    \A k \in 1..Len(df) : DotPct(df[k].DURATION_PCT)

\* a returned row whose percentage word was written with a comma
C6_Witness ==
    /\ pc = "done"
    /\ \E k \in 1..Len(df) :
          LET text == doc[df[k].src.page + 1][df[k].src.p].text
          IN  /\ \E m \in 1..Len(text) : text[m] = ","
              /\ df[k].DURATION_PCT = ReplaceComma(text)
              /\ df[k].DURATION_PCT # text

\* C7: the rows of the returned table ascend in page and, within a page, in
\* the top of their duration anchor; nothing is deduplicated: every scanned
\* page has in the table as many rows of a project as it yields on its own,
\* so a project with a row on k scanned pages has at least k rows.
C7_RowOrder ==
    pc = "done" =>
      /\ \A a, b \in 1..Len(df) :
            a < b =>
              \/ df[a].src.page < df[b].src.page
              \/ /\ df[a].src.page = df[b].src.page
                 /\ doc[df[a].src.page + 1][df[a].src.d].top
                      <= doc[df[b].src.page + 1][df[b].src.d].top
      /\ \A label \in {df[k].PROJECT : k \in 1..Len(df)} :
            LET Labelled(t) == Cardinality({m \in 1..Len(t) : t[m].PROJECT = label})
                yields == [j \in ReturnedPages |->
                              {Labelled(res) : res \in ScanPageOf[doc[j + 1]]}]
            IN  /\ \A j \in ReturnedPages : Labelled(RowsOfPage(df, j)) \in yields[j]
                /\ Labelled(df) >= Cardinality({j \in ReturnedPages : 0 \notin yields[j]})

\* a returned table with two rows of one page and with one project on two
\* pages
C7_Witness ==
    /\ pc = "done"
    /\ \E a, b \in 1..Len(df) :
          /\ a < b /\ df[a].src.page = df[b].src.page
          /\ doc[df[a].src.page + 1][df[a].src.d].top < doc[df[b].src.page + 1][df[b].src.d].top
    /\ \E a, b \in 1..Len(df) :
          /\ df[a].src.page < df[b].src.page
          /\ df[a].PROJECT # None /\ df[a].PROJECT = df[b].PROJECT

C9_ClientWithoutDash ==
    \A k \in 1..Len(df) :
        LET words == doc[df[k].src.page + 1]
            top == words[df[k].src.d].top
            band == {m \in 1..Len(words) :
                        /\ between(words[m].top, top - Y_TOL, top + Y_TOL)
                        /\ words[m].x0 >= client_x_min(words)
                        /\ words[m].text # <<"-">>}
        IN  df[k].CLIENT \in {str_strip(str_join(TextsOf(words, o)))
                               : o \in sort_values_x0(words, band)}

\* C10, as stated: a duration anchor with an empty left text gets no row,
\* and every row of the returned table has a non-empty project label or
\* member name.
C10_NoEmptyLabel ==
    /\ \A k \in 1..Len(df) :
          LET words == doc[df[k].src.page + 1]
          IN  /\ df[k].DURATION = words[df[k].src.d].text
              /\ <<>> \notin LeftOf(words, df[k].src.d)
    /\ \A k \in 1..Len(df) :
          \/ df[k].PROJECT # None /\ df[k].PROJECT # <<>>
          \/ df[k].MEMBER # None /\ df[k].MEMBER # <<>>

====
